---- MODULE Spec2Model ----
(***************************************************************************)
(* OpenTargetGenerator: the per-aircraft flight-state engine               *)
(* (src/aircraft.py), the transmitter thread of each aircraft              *)
(* (src/fgms.py, src/fgmsHandler.py) and the registry with its operator    *)
(* commands (src/OpenTargetGenerator.py).                                  *)
(*                                                                         *)
(* Units.  Distances are in tenths of a nautical mile and speeds in tenths *)
(* of a knot, so that the approach speed bleed (8 kt per NM) stays exact   *)
(* in integers; altitudes are feet and headings are whole degrees, as in   *)
(* the code.                                                               *)
(*                                                                         *)
(* Geometry.  heading_to and distance_to (src/coords.py) are floating      *)
(* point functions of latitude and longitude.  The model does not carry    *)
(* latitude and longitude: each tick draws the rounded bearing and the     *)
(* distance it reads from the sets in `scn`, and the position is kept as   *)
(* a token that changes exactly when move_position moves the aircraft by   *)
(* a nonzero distance.                                                     *)
(*                                                                         *)
(* Two names the code reads are not bound as the code is written:          *)
(* constants.iasvar (src/aircraft.py:53) and the third constructor         *)
(* argument of FGMShandshaker (src/fgmsHandler.py:45 passes two, the       *)
(* signature at src/fgms.py:174 takes three).  The model takes iasvar as 0 *)
(* and the handshaker as constructed around the handler's socket and       *)
(* aircraft, so that the behaviour of a created aircraft can be studied.   *)
(*                                                                         *)
(* Threads.  One iteration of a transmitter's loop is one step.  The       *)
(* operator's commands '>>', 'a' and '>' change the aircraft in several    *)
(* statements with nothing to keep the transmitter thread out, so they are *)
(* one step per statement (`sel`, `at`); the other commands assign once.   *)
(***************************************************************************)
EXTENDS Integers, Sequences, FiniteSets, TLC

VARIABLES
    scn,            \* scenario and input domains of the run (never changes)
    aircraft_list,  \* OpenTargetGenerator.aircraft_list: sequence of object ids
    obj,            \* object id -> Aircraft instance (its fields)
    thr,            \* object id -> FGMShandshaker thread of that aircraft
    main,           \* the operator (main) thread: "running", "crashed", "exited"
    gen,            \* number of scenario loads done so far
    ncmd,           \* number of operator commands issued so far
    last,           \* the last operator command, with its outcome
    sel,            \* the aircraft whose command the operator thread is inside
    at,             \* the statement of that command the operator thread is at
    pure            \* argument and result of the pure-function specifications

vars == <<scn, aircraft_list, obj, thr, main, gen, ncmd, last, sel, at, pure>>

\* ---------------------------------------------------------------- bounds

MaxCmds == 2        \* operator commands in one run
MaxTicks == 3       \* state advances of one aircraft in one run
MaxLoads == 2       \* scenario loads in one run (the first load and reloads)
MaxTurnSteps == 183 \* applications of turn_one_degree in SpecTurn
MaxAltSteps == 6    \* applications of adjust_alt in SpecAlt

\* ------------------------------------------------------------- constants

iasvar == 0
climb_descent_rate == 15
shallow_intercept_angle == 5
magic_distance == 4
free_speed_distance == 50
free_speed_increment == 8
feather_distance == 120

PosTokens == 2      \* position tokens kept apart by the model
MaxCount == 2       \* history counters saturate here

\* optional value: the packet of a thread that has built none yet
Unset == <<>>
Some(v) == <<v>>
Val(x) == x[1]

Abs(x) == IF x < 0 THEN -x ELSE x

\* Python's round() on a distance given in tenths: half goes to the even integer
PyRound10(d) ==
    LET q == d \div 10
        r == d % 10
    IN  IF r < 5 THEN q
        ELSE IF r > 5 THEN q + 1
        ELSE IF q % 2 = 0 THEN q ELSE q + 1

\* ---------------------------------------------------------------- tables

\* c.data['navaids']: name -> crossing altitude (0 when the record has none)
Navaids == [WPA |-> 0, WPB |-> 3000]
NavaidNames == DOMAIN Navaids

\* c.data['runways']: id -> inbound course and elevation
Runways == [R02 |-> [crs |-> 2, elev |-> 100]]
RunwayIds == DOMAIN Runways

\* ------------------------------------------------------------ coords.py

\* moved(): the position after a crow's flight of `distance`; a flight of
\* length 0 ends where it started, any other ends somewhere else.
moved(pos, distance) ==
    IF distance = 0 THEN pos ELSE (pos + 1) % PosTokens

\* ---------------------------------------------------- Aircraft: setters

Has(a, attr) == attr \in a.attrs
Raise(a, e) == [a EXCEPT !.raised = e]
Ok(a) == a.raised = ""

set_target_heading(a, target_heading) ==
    [a EXCEPT !.status = "heading",
              !.target_heading = (target_heading - scn.magvar) % 360,
              !.attrs = @ \cup {"target_heading"}]

set_target_alt(a, target_alt) ==
    [a EXCEPT !.on_profile = FALSE, !.target_alt = target_alt]

\* one statement of set_target_rwy, by its line in src/aircraft.py
set_target_rwy_line(a, line, rwy) ==
    CASE line = 108 -> [a EXCEPT !.status = "approach"]
      [] line = 109 -> [a EXCEPT !.target_rwy_lat = rwy,
                                 !.attrs = @ \cup {"target_rwy_lat"}]
      [] line = 110 -> [a EXCEPT !.target_rwy_lon = rwy,
                                 !.attrs = @ \cup {"target_rwy_lon"}]
      [] line = 111 -> [a EXCEPT !.target_rwy_crs = Runways[rwy].crs - scn.magvar,
                                 !.attrs = @ \cup {"target_rwy_crs"}]
      [] line = 112 -> [a EXCEPT !.target_rwy_elev = Runways[rwy].elev,
                                 !.attrs = @ \cup {"target_rwy_elev"}]

set_target_rwy(a, rwy) ==
    LET a1 == set_target_rwy_line(a, 108, rwy)
        a2 == set_target_rwy_line(a1, 109, rwy)
        a3 == set_target_rwy_line(a2, 110, rwy)
        a4 == set_target_rwy_line(a3, 111, rwy)
    IN  set_target_rwy_line(a4, 112, rwy)

\* The loop over the navaids evaluates route[index] in its first comparison;
\* an index past the end raises IndexError there, and the bare except calls
\* set_target_heading(self.heading + magvar), which itself raises when the
\* heading attribute does not exist yet (inside the constructor).
set_target_wpt(a) ==
    IF a.target_wpt_index >= Len(a.route)
    THEN IF Has(a, "heading")
         THEN set_target_heading(a, a.heading + scn.magvar)
         ELSE Raise(a, "AttributeError")
    ELSE LET name == a.route[a.target_wpt_index + 1]
         IN  IF name \in NavaidNames
             THEN [a EXCEPT !.target_wpt_lat = name,
                            !.target_wpt_lon = name,
                            !.target_wpt_alt = Navaids[name],
                            !.attrs = @ \cup {"target_wpt_lat", "target_wpt_lon",
                                              "target_wpt_alt"}]
             ELSE a

\* one statement of set_route, by its line in src/aircraft.py
set_route_line(a, line, route) ==
    CASE line = 91 -> [a EXCEPT !.status = "route"]
      [] line = 92 -> [a EXCEPT !.target_wpt_index = 0]
      [] line = 93 -> [a EXCEPT !.route = route]
      [] line = 94 -> set_target_wpt(a)

set_route(a, route) ==
    LET a1 == set_route_line(a, 91, route)
        a2 == set_route_line(a1, 92, route)
        a3 == set_route_line(a2, 93, route)
    IN  set_route_line(a3, 94, route)

\* round(heading_to(...)): heading_to returns a value in [0, 360), so the
\* rounded bearing `brg` lies in 0..360.
bearing_to_target_wpt(a, brg) ==
    IF Has(a, "target_wpt_lat") /\ Has(a, "target_wpt_lon") THEN brg ELSE -1

\* --------------------------------------------------- Aircraft: algorithms

check_heading(heading) == heading % 360

\* turn_one_degree with the test `>= 180`: headings half a circle apart turn
\* right
turn_one_degree_tie_right(heading, target_hdg) ==
    IF heading # target_hdg
    THEN LET turn_right == (heading - target_hdg + 360) % 360 >= 180
         IN  check_heading(IF turn_right THEN heading + 1 ELSE heading - 1)
    ELSE check_heading(heading)

turn_one_degree(heading, target_hdg) ==
    IF heading # target_hdg
    THEN LET turn_right == (heading - target_hdg + 360) % 360 > 180
         IN  check_heading(IF turn_right THEN heading + 1 ELSE heading - 1)
    ELSE check_heading(heading)

Turn(a, target_hdg) ==
    [a EXCEPT !.heading = turn_one_degree(a.heading, target_hdg)]

move_position(a) ==
    [a EXCEPT !.pos = moved(a.pos, a.spd)]

adjust_heading(a) ==
    IF a.heading # a.target_heading THEN Turn(a, a.target_heading) ELSE a

\* adjust_alt without the final snap: every step is a full step
adjust_alt_overshooting(alt, target_alt, rate) ==
    IF alt # target_alt
    THEN IF alt > target_alt THEN alt - rate ELSE alt + rate
    ELSE alt

adjust_alt_by(alt, target_alt, rate) ==
    IF alt # target_alt
    THEN IF Abs(alt - target_alt) >= rate
         THEN IF alt > target_alt THEN alt - rate ELSE alt + rate
         ELSE target_alt
    ELSE alt

adjust_alt(a) ==
    [a EXCEPT !.alt = adjust_alt_by(a.alt, a.target_alt, climb_descent_rate)]

\* one knot is 10 tenths of a knot
adjust_speed_by(spd, target_spd) ==
    IF spd # target_spd
    THEN IF spd > target_spd THEN spd - 10 ELSE spd + 10
    ELSE spd

adjust_speed(a) ==
    [a EXCEPT !.spd = adjust_speed_by(a.spd, a.target_spd)]

turn_to_centerline(a, brg) ==
    IF brg = a.target_rwy_crs THEN Turn(a, brg)
    ELSE IF brg > a.target_rwy_crs THEN Turn(a, brg + shallow_intercept_angle)
    ELSE Turn(a, brg - shallow_intercept_angle)

\* self.delete_aircraft() is not a method of Aircraft: the call raises
\* AttributeError, after the altitude clamp and the snapshot have been done.
descend_to_rwy(a, dme) ==
    LET glidepath_alt == 30 * dme + a.target_rwy_elev
        a1 == IF a.alt > glidepath_alt
              THEN [a EXCEPT !.alt = glidepath_alt, !.target_alt = glidepath_alt]
              ELSE a
        a2 == IF PyRound10(dme) = (free_speed_distance \div 10) + 1
              THEN [a1 EXCEPT !.initial_appr_spd = a1.spd]
              ELSE a1
    IN  IF dme < free_speed_distance /\ dme > magic_distance
        THEN [a2 EXCEPT !.spd = a2.initial_appr_spd
                              - (free_speed_distance - dme) * free_speed_increment]
        ELSE IF dme <= magic_distance
        THEN Raise(a2, "AttributeError")
        ELSE a2

\* The touchdown position and the course are read before the turn, the
\* elevation only in descend_to_rwy, after it.
check_ils_feather(a, brg, dme) ==
    IF ~ (Has(a, "target_rwy_lat") /\ Has(a, "target_rwy_lon")
          /\ Has(a, "target_rwy_crs"))
    THEN Raise(a, "AttributeError")
    ELSE LET a1 == IF Abs(brg - a.target_rwy_crs) <= 2 /\ dme < feather_distance
                   THEN turn_to_centerline(a, brg)
                   ELSE IF Abs(brg - a.target_rwy_crs) <= 1 /\ dme >= feather_distance
                   THEN turn_to_centerline(a, brg)
                   ELSE Turn(a, a.target_heading)
         IN  IF Has(a1, "target_rwy_elev")
             THEN descend_to_rwy(a1, dme)
             ELSE Raise(a1, "AttributeError")

\* fly_route without the call of set_target_wpt: the index moves on, the
\* cached waypoint stays
fly_route_without_refresh(a, brg, dme) ==
    IF ~ (Has(a, "target_wpt_lat") /\ Has(a, "target_wpt_lon")
          /\ Has(a, "target_wpt_alt"))
    THEN Raise(a, "AttributeError")
    ELSE LET a1 == IF a.target_wpt_alt # 0
                      /\ dme * 100 <= Abs(a.alt - a.target_wpt_alt) * 3
                      /\ a.on_profile
                   THEN [a EXCEPT !.target_alt = a.target_wpt_alt]
                   ELSE a
         IN  IF dme > magic_distance
             THEN IF Abs(a1.heading - brg) >= 1 THEN Turn(a1, brg) ELSE a1
             ELSE [a1 EXCEPT !.target_wpt_index = @ + 1]

\* fly_route without the test of on_profile
fly_route_off_profile(a, brg, dme) ==
    IF ~ (Has(a, "target_wpt_lat") /\ Has(a, "target_wpt_lon")
          /\ Has(a, "target_wpt_alt"))
    THEN Raise(a, "AttributeError")
    ELSE LET a1 == IF a.target_wpt_alt # 0
                      /\ dme * 100 <= Abs(a.alt - a.target_wpt_alt) * 3
                   THEN [a EXCEPT !.target_alt = a.target_wpt_alt]
                   ELSE a
         IN  IF dme > magic_distance
             THEN IF Abs(a1.heading - brg) >= 1 THEN Turn(a1, brg) ELSE a1
             ELSE set_target_wpt([a1 EXCEPT !.target_wpt_index = @ + 1])

\* tod = abs(alt - target_wpt_alt) / 1000 * 3 NM, compared in tenths of a NM
fly_route(a, brg, dme) ==
    IF ~ (Has(a, "target_wpt_lat") /\ Has(a, "target_wpt_lon")
          /\ Has(a, "target_wpt_alt"))
    THEN Raise(a, "AttributeError")
    ELSE LET a1 == IF a.target_wpt_alt # 0
                      /\ dme * 100 <= Abs(a.alt - a.target_wpt_alt) * 3
                      /\ a.on_profile
                   THEN [a EXCEPT !.target_alt = a.target_wpt_alt]
                   ELSE a
         IN  IF dme > magic_distance
             THEN IF Abs(a1.heading - brg) >= 1 THEN Turn(a1, brg) ELSE a1
             ELSE set_target_wpt([a1 EXCEPT !.target_wpt_index = @ + 1])

\* control_aircraft without the test of the paused flag
control_aircraft_while_paused(a, brg, dme) ==
    LET a1 == CASE a.status = "route" -> fly_route(a, brg, dme)
                [] a.status = "heading" -> adjust_heading(a)
                [] a.status = "approach" -> check_ils_feather(a, brg, dme)
                [] OTHER -> a
    IN  IF Ok(a1) THEN move_position(adjust_speed(adjust_alt(a1))) ELSE a1

control_aircraft(a, brg, dme) ==
    IF a.paused THEN a
    ELSE LET a1 == CASE a.status = "route" -> fly_route(a, brg, dme)
                     [] a.status = "heading" -> adjust_heading(a)
                     [] a.status = "approach" -> check_ils_feather(a, brg, dme)
                     [] OTHER -> a
         IN  IF Ok(a1) THEN move_position(adjust_speed(adjust_alt(a1))) ELSE a1

\* a constructor that leaves the aircraft running: `self.paused = False`
Aircraft_unpaused(ac) ==
    LET a0 == [handler |-> "None", paused |-> FALSE,
               callsign |-> ac.callsign, sq |-> ac.sq,
               pos |-> 0, alt |-> ac.alt, spd |-> ac.spd * 10,
               route |-> ac.route,
               target_alt |-> ac.alt, target_spd |-> (ac.spd + iasvar) * 10,
               status |-> "route", on_profile |-> TRUE,
               initial_appr_spd |-> 1800, target_wpt_index |-> 0,
               target_wpt_lat |-> "", target_wpt_lon |-> "", target_wpt_alt |-> 0,
               target_rwy_lat |-> "", target_rwy_lon |-> "",
               target_rwy_crs |-> 0, target_rwy_elev |-> 0,
               heading |-> 0, target_heading |-> 0,
               attrs |-> {"handler"}, raised |-> "", ticks |-> 0,
               touchdown |-> FALSE, snap |-> "default", fresh |-> TRUE]
        a1 == set_target_wpt(a0)
        b  == bearing_to_target_wpt(a1, ac.brg)
    IN  IF ~ Ok(a1) THEN a1
        ELSE IF b < 0 THEN Raise(a1, "AttributeError")
        ELSE [a1 EXCEPT !.heading = b, !.target_heading = b,
                        !.attrs = @ \cup {"heading", "target_heading"}]

\* Aircraft.__init__ for scenario record `ac`; ac.brg is the rounded bearing
\* from the record's position to its first waypoint.  The last four fields
\* are history kept for the properties: state advances so far, a tick inside
\* the touchdown proximity, the origin of initial_appr_spd, and whether no
\* unpause command has addressed the aircraft yet.
Aircraft(ac) ==
    LET a0 == [handler |-> "None", paused |-> TRUE,
               callsign |-> ac.callsign, sq |-> ac.sq,
               pos |-> 0, alt |-> ac.alt, spd |-> ac.spd * 10,
               route |-> ac.route,
               target_alt |-> ac.alt, target_spd |-> (ac.spd + iasvar) * 10,
               status |-> "route", on_profile |-> TRUE,
               initial_appr_spd |-> 1800, target_wpt_index |-> 0,
               target_wpt_lat |-> "", target_wpt_lon |-> "", target_wpt_alt |-> 0,
               target_rwy_lat |-> "", target_rwy_lon |-> "",
               target_rwy_crs |-> 0, target_rwy_elev |-> 0,
               heading |-> 0, target_heading |-> 0,
               attrs |-> {"handler"}, raised |-> "", ticks |-> 0,
               touchdown |-> FALSE, snap |-> "default", fresh |-> TRUE]
        a1 == set_target_wpt(a0)
        b  == bearing_to_target_wpt(a1, ac.brg)
    IN  IF ~ Ok(a1) THEN a1
        ELSE IF b < 0 THEN Raise(a1, "AttributeError")
        ELSE [a1 EXCEPT !.heading = b, !.target_heading = b,
                        !.attrs = @ \cup {"heading", "target_heading"}]

\* ------------------------------------------- FgmsHandler, FGMShandshaker

Sat(n) == IF n < MaxCount THEN n + 1 ELSE n

\* FGMShandshaker.__init__ followed by Thread.start(): the thread is about to
\* evaluate `while self.handshaker_run` for the first time.
FGMShandshaker ==
    [pc |-> "idle", handshaker_run |-> TRUE, pkt |-> Unset,
     began |-> [paused |-> TRUE, spd |-> 0],
     sendto |-> "", after_stop |-> 0, reached |-> {}, error |-> ""]

\* FgmsHandler.__init__ / start: a socket that cannot be created leaves a
\* handler whose socket is None and that has no handshaker.
FgmsHandler(sock_ok) == IF sock_ok THEN "open" ELSE "closed"

\* FgmsHandler.stop on the handler of aircraft o, in state st = [obj, thr, raised]
stop(st, o) ==
    IF st.obj[o].handler = "open"
    THEN [st EXCEPT !.obj[o].handler = "closed",
                    !.thr[o].handshaker_run = FALSE]
    ELSE st

\* Aircraft.disconnect_aircraft: self.handler raises AttributeError once the
\* attribute has been deleted.
disconnect_aircraft(st, o) ==
    IF ~ Has(st.obj[o], "handler")
    THEN [st EXCEPT !.raised = "AttributeError"]
    ELSE [stop(st, o) EXCEPT !.obj[o].attrs = @ \ {"handler"}]

\* --------------------------------------------------- OpenTargetGenerator

\* initialize_aircraft from record i on, for load number g; socks[i] tells
\* whether the socket of record i can be created.  The aircraft is appended
\* to the list before its handler is built.
RECURSIVE initialize_aircraft(_, _, _, _)
initialize_aircraft(st, g, i, socks) ==
    IF i > Len(scn.aircraft) THEN st
    ELSE LET a == Aircraft(scn.aircraft[i])
             o == <<g, i>>
         IN  IF ~ Ok(a) THEN [st EXCEPT !.raised = a.raised]
             ELSE initialize_aircraft(
                    [list |-> Append(st.list, o),
                     obj |-> st.obj @@ (o :> [a EXCEPT !.handler = FgmsHandler(socks[i])]),
                     thr |-> IF socks[i] THEN st.thr @@ (o :> FGMShandshaker)
                                         ELSE st.thr,
                     raised |-> ""],
                    g, i + 1, socks)

\* delete_all_aircraft from position i of the list on; the list is cleared
\* only when the loop has run to its end.
RECURSIVE delete_all_aircraft(_, _)
delete_all_aircraft(st, i) ==
    IF i > Len(st.list) THEN [st EXCEPT !.list = <<>>]
    ELSE LET st1 == disconnect_aircraft(st, st.list[i])
         IN  IF st1.raised # "" THEN st1 ELSE delete_all_aircraft(st1, i + 1)

Now == [list |-> aircraft_list, obj |-> obj, thr |-> thr, raised |-> ""]

\* An aircraft that is in no list and whose thread has ended (or was never
\* started) is referenced by nothing any more: the object and its thread go.
Alive(st, o) ==
    \/ \E i \in 1..Len(st.list) : st.list[i] = o
    \/ o \in DOMAIN st.thr /\ st.thr[o].pc \in {"idle", "tick"}

Install(st) ==
    /\ aircraft_list' = st.list
    /\ obj' = [o \in {p \in DOMAIN st.obj : Alive(st, p)} |-> st.obj[o]]
    /\ thr' = [o \in {p \in DOMAIN st.thr : Alive(st, p)} |-> st.thr[o]]

Socks == [1..Len(scn.aircraft) -> BOOLEAN]

\* ------------------------------------------------- FGMShandshaker.run

Listed == {aircraft_list[i] : i \in 1..Len(aircraft_list)}

\* a loop test that does not read the flag: `while True:`
LoopTestAlways(o) ==
    /\ o \in DOMAIN thr
    /\ thr[o].pc = "idle"
    /\ Install([Now EXCEPT !.thr[o].pc = "tick"])
    /\ UNCHANGED <<scn, sel, at, main, gen, ncmd, last, pure>>

\* `while self.handshaker_run:` evaluated at thread start and after each sleep
LoopTest(o) ==
    /\ o \in DOMAIN thr
    /\ thr[o].pc = "idle"
    /\ Install([Now EXCEPT !.thr[o].pc = IF thr[o].handshaker_run THEN "tick" ELSE "done"])
    /\ UNCHANGED <<scn, sel, at, main, gen, ncmd, last, pure>>

\* what run() reads from the aircraft to build the packet of this iteration
Report(a) ==
    [callsign |-> a.callsign, pos |-> a.pos, alt |-> a.alt,
     heading |-> a.heading, spd |-> a.spd, sq |-> a.sq]

\* The rounded bearing and the distance a tick of aircraft a reads: the route
\* and approach logic read them, a paused tick and the heading logic do not.
Readings(a) ==
    IF a.paused \/ a.status = "heading"
    THEN {<<0, 0>>}
    ELSE scn.bearings \X scn.dmes

\* a tick of aircraft a that runs the approach logic at distance dme, inside
\* the proximity at which the aircraft is to be deleted
AtTouchdown(a, dme) ==
    ~ a.paused /\ a.status = "approach" /\ dme <= magic_distance

\* a tick of aircraft a that runs descend_to_rwy at a distance that rounds to
\* 6 NM: it stores the speed in initial_appr_spd
Snapshot(a, dme) ==
    /\ ~ a.paused /\ a.status = "approach"
    /\ Has(a, "target_rwy_lat") /\ Has(a, "target_rwy_lon")
    /\ Has(a, "target_rwy_crs") /\ Has(a, "target_rwy_elev")
    /\ PyRound10(dme) = (free_speed_distance \div 10) + 1

\* the waypoint a tick of aircraft a finds itself at: the route logic reads a
\* distance of at most 0.4 NM to the cached waypoint
Reached(a, dme) ==
    IF ~ a.paused /\ a.status = "route" /\ dme <= magic_distance
    THEN {a.target_wpt_lat}
    ELSE {}

\* sendto without the try: the OSError ends run()
AfterSendUncaught(sent) == IF sent THEN "idle" ELSE "done"

\* Where the thread is after socket.sendto: the OSError is caught and printed,
\* so both outcomes go on to the sleep and back to the loop test.
AfterSend(sent) == "idle"

\* One pass through the loop body: get_pos(), the building of the packet,
\* socket.sendto (sent says whether it succeeds or raises the OSError that is
\* printed), sleep.  An exception raised inside get_pos is caught nowhere in
\* run() and ends the thread before anything is sent.
Iteration(o, sent) ==
    /\ o \in DOMAIN thr
    /\ thr[o].pc = "tick"
    /\ obj[o].paused \/ obj[o].ticks < MaxTicks
    /\ \E rd \in Readings(obj[o]) :
         LET a == control_aircraft(obj[o], rd[1], rd[2])
         IN  Install([Now EXCEPT
               !.obj[o] = [a EXCEPT !.raised = "",
                                    !.ticks = IF obj[o].paused THEN @ ELSE @ + 1,
                                    !.touchdown = @ \/ AtTouchdown(obj[o], rd[2]),
                                    !.snap = IF Snapshot(obj[o], rd[2])
                                             THEN "taken" ELSE @],
               !.thr =   IF Ok(a)
                       THEN [thr EXCEPT
                               ![o].pc = AfterSend(sent),
                               ![o].pkt = Some(Report(a)),
                               ![o].began = [paused |-> obj[o].paused,
                                             spd |-> obj[o].spd],
                               ![o].sendto = IF sent THEN "ok" ELSE "OSError",
                               ![o].reached = @ \cup Reached(obj[o], rd[2]),
                               ![o].after_stop =
                                   IF sent /\ ~ thr[o].handshaker_run THEN Sat(@) ELSE @]
                       ELSE [thr EXCEPT ![o].pc = "dead", ![o].error = a.raised]])
    /\ UNCHANGED <<scn, sel, at, main, gen, ncmd, last, pure>>

SendOk(o) == Iteration(o, TRUE)

SendFail(o) == Iteration(o, FALSE)

\* ------------------------------------------------------ operator commands

\* no aircraft: the operator thread is inside no per-aircraft command
NoObject == <<0, 0>>

\* the operator thread is at a prompt, inside no command
AtPrompt == [cmd |-> "", line |-> 0, arg |-> <<>>]

\* the operator thread is at the prompt of super_commands
CanCommand == main = "running" /\ ncmd < MaxCmds /\ sel = NoObject

Issue(cmd, o, ok) ==
    /\ ncmd' = ncmd + 1
    /\ last' = [cmd |-> cmd, ok |-> ok]

\* a per-aircraft command that changes fields of the aircraft only
Change(cmd, o, a, ok) ==
    /\ obj' = [obj EXCEPT ![o] = a]
    /\ Issue(cmd, o, ok)
    /\ UNCHANGED <<scn, sel, at, aircraft_list, thr, main, gen, pure>>

\* the operator thread is inside command cmd on aircraft o
Inside(cmd, o) ==
    main = "running" /\ sel = o /\ at.cmd = cmd /\ o \in DOMAIN obj

\* The operator thread runs statement at.line of a setter of aircraft o and
\* goes on to the next one; after the last one the command is done.
Statement(cmd, o, a, last_line) ==
    /\ obj' = [obj EXCEPT ![o] = a]
    /\ IF at.line = last_line
       THEN /\ Issue(cmd, o, TRUE)
            /\ sel' = NoObject
            /\ at' = AtPrompt
       ELSE /\ at' = [at EXCEPT !.line = @ + 1]
            /\ UNCHANGED <<sel, ncmd, last>>
    /\ UNCHANGED <<scn, aircraft_list, thr, main, gen, pure>>

CmdPause(o) ==
    /\ CanCommand /\ o \in Listed
    /\ Change("p", o, [obj[o] EXCEPT !.paused = TRUE], TRUE)

CmdUnpause(o) ==
    /\ CanCommand /\ o \in Listed
    /\ Change("u", o, [obj[o] EXCEPT !.paused = FALSE, !.fresh = FALSE], TRUE)

CmdHeading(o) ==
    /\ CanCommand /\ o \in Listed
    /\ \E v \in scn.headings : Change("h", o, set_target_heading(obj[o], v), TRUE)

CmdAltitude(o) ==
    /\ CanCommand /\ o \in Listed
    /\ \E v \in scn.alts : Change("m", o, set_target_alt(obj[o], v * 100), TRUE)

CmdSpeed(o) ==
    /\ CanCommand /\ o \in Listed
    /\ \E v \in scn.spds :
         Change("s", o, [obj[o] EXCEPT !.target_spd = (v + iasvar) * 10], TRUE)

\* 'a': an id that names no runway leaves the loop without a match and
\* without a report.  For one that does, set_target_rwy runs; the transmitter
\* thread can run between any two of its statements, so the command is one
\* step per statement: the first,
CmdApproach(o) ==
    /\ CanCommand /\ o \in Listed
    /\ \E r \in scn.rwys :
         IF r \in RunwayIds
         THEN /\ obj' = [obj EXCEPT ![o] =
                          [set_target_rwy_line(obj[o], 108, r) EXCEPT
                              !.snap = IF @ = "taken" THEN "stale" ELSE @]]
              /\ sel' = o
              /\ at' = [cmd |-> "a", line |-> 109, arg |-> <<r>>]
              /\ UNCHANGED <<scn, aircraft_list, thr, main, gen, ncmd, last, pure>>
         ELSE Change("a", o, obj[o], TRUE)

\* and each of the others.
CmdApproachStatement(o) ==
    /\ Inside("a", o)
    /\ Statement("a", o, set_target_rwy_line(obj[o], at.line, at.arg[1]), 112)

\* '>>' changes the aircraft in two statements of the handler itself, and the
\* transmitter thread can run between them: first the index is incremented,
CmdNextWaypoint(o) ==
    /\ CanCommand /\ o \in Listed
    /\ obj' = [obj EXCEPT ![o].target_wpt_index = @ + 1]
    /\ sel' = o
    /\ at' = [cmd |-> ">>", line |-> 154, arg |-> <<>>]
    /\ UNCHANGED <<scn, aircraft_list, thr, main, gen, ncmd, last, pure>>

\* then set_target_wpt runs and route[index] is printed, which raises
\* IndexError past the end of the route ('Invalid instruction!').
CmdNextWaypointSet(o) ==
    /\ Inside(">>", o)
    /\ LET a == set_target_wpt(obj[o])
       IN  /\ obj' = [obj EXCEPT ![o] = a]
           /\ Issue(">>", o, a.target_wpt_index < Len(a.route))
    /\ sel' = NoObject
    /\ at' = AtPrompt
    /\ UNCHANGED <<scn, aircraft_list, thr, main, gen, pure>>

\* '>': set_route, one step per statement like set_target_rwy
CmdRoute(o) ==
    /\ CanCommand /\ o \in Listed
    /\ \E r \in scn.routes :
         /\ obj' = [obj EXCEPT ![o] = set_route_line(obj[o], 91, r)]
         /\ sel' = o
         /\ at' = [cmd |-> ">", line |-> 92, arg |-> r]
    /\ UNCHANGED <<scn, aircraft_list, thr, main, gen, ncmd, last, pure>>

CmdRouteStatement(o) ==
    /\ Inside(">", o)
    /\ Statement(">", o, set_route_line(obj[o], at.line, at.arg), 94)

CmdSquawk(o) ==
    /\ CanCommand /\ o \in Listed
    /\ \E v \in scn.sqs : Change("b", o, [obj[o] EXCEPT !.sq = v], TRUE)

\* 'x': the aircraft stays in aircraft_list
CmdDisconnect(o) ==
    /\ CanCommand /\ o \in Listed
    /\ LET st == disconnect_aircraft(Now, o)
       IN  /\ obj' = st.obj
           /\ thr' = st.thr
           /\ Issue("x", o, st.raised = "")
    /\ UNCHANGED <<scn, sel, at, aircraft_list, main, gen, pure>>

\* an empty command, an unknown letter with a value, 'h' without a number, ...
CmdInvalid(o) ==
    /\ CanCommand /\ o \in Listed
    /\ Change("?", o, obj[o], FALSE)

GlobalPause ==
    /\ CanCommand
    /\ obj' = [o \in DOMAIN obj |->
                 IF o \in Listed THEN [obj[o] EXCEPT !.paused = TRUE] ELSE obj[o]]
    /\ Issue("P", NoObject, TRUE)
    /\ UNCHANGED <<scn, sel, at, aircraft_list, thr, main, gen, pure>>

GlobalUnpause ==
    /\ CanCommand
    /\ obj' = [o \in DOMAIN obj |->
                 IF o \in Listed THEN [obj[o] EXCEPT !.paused = FALSE, !.fresh = FALSE]
                                  ELSE obj[o]]
    /\ Issue("U", NoObject, TRUE)
    /\ UNCHANGED <<scn, sel, at, aircraft_list, thr, main, gen, pure>>

\* RELOAD: delete_all_aircraft, get_data, initialize_aircraft.  An exception
\* is caught nowhere and ends the main thread.
Reload ==
    /\ CanCommand
    /\ gen < MaxLoads
    /\ LET st1 == delete_all_aircraft(Now, 1)
       IN  IF st1.raised # ""
           THEN /\ Install(st1)
                /\ main' = "crashed"
                /\ gen' = gen
                /\ Issue("RELOAD", NoObject, FALSE)
           ELSE \E socks \in Socks :
                  LET st2 == initialize_aircraft(st1, gen + 1, 1, socks)
                  IN  /\ Install(st2)
                      /\ main' = IF st2.raised = "" THEN "running" ELSE "crashed"
                      /\ gen' = gen + 1
                      /\ Issue("RELOAD", NoObject, st2.raised = "")
    /\ UNCHANGED <<scn, sel, at, pure>>

\* EXIT: `for ac in self.aircraft_list: self.delete_all_aircraft()`, sys.exit().
\* The first pass empties the list, which ends the loop.
Exit ==
    /\ CanCommand
    /\ LET st1 == IF aircraft_list = <<>> THEN Now ELSE delete_all_aircraft(Now, 1)
       IN  /\ Install(st1)
           /\ main' = IF st1.raised = "" THEN "exited" ELSE "crashed"
           /\ Issue("EXIT", NoObject, st1.raised = "")
    /\ UNCHANGED <<scn, sel, at, gen, pure>>

\* ---------------------------------------------------------- the program

NoPure == [fn |-> "none", x |-> 0, y |-> 0, r |-> 0, n |-> 0, x0 |-> 0]

Empty == [list |-> <<>>, obj |-> <<>>, thr |-> <<>>, raised |-> ""]

\* the state after OpenTargetGenerator.prompts() has loaded scenario s
Loaded(s) ==
    /\ scn = s
    /\ \E socks \in Socks :
         LET st == initialize_aircraft(Empty, 1, 1, socks)
         IN  /\ aircraft_list = st.list
             /\ obj = st.obj
             /\ thr = st.thr
             /\ main = IF st.raised = "" THEN "running" ELSE "crashed"
    /\ gen = 1
    /\ ncmd = 0
    /\ last = [cmd |-> "", ok |-> TRUE]
    /\ sel = NoObject
    /\ at = AtPrompt
    /\ pure = NoPure

\* The scenarios of the runs: one aircraft record each, with the values the
\* operator types and the bearings and distances the ticks read.
\*   Nominal: 180 kt, first waypoint due east.
\*   North:   first waypoint at a bearing that rounds to 360; variation 3.
\*   Slow:    1 kt, so that a speed of 0 is one knot away.
Nominal ==
    [aircraft |-> << [callsign |-> "AC1", sq |-> 1200, alt |-> 3000, spd |-> 180,
                      route |-> <<"WPA", "WPB">>, brg |-> 90] >>,
     magvar |-> 0,
     bearings |-> {90}, dmes |-> {3, 49, 60},
     headings |-> {91}, alts |-> {29}, spds |-> {181},
     rwys |-> {"R02"}, routes |-> {<<"WPB">>}, sqs |-> {7000}]

North ==
    [aircraft |-> << [callsign |-> "AC2", sq |-> 1200, alt |-> 3000, spd |-> 180,
                      route |-> <<"WPA">>, brg |-> 360] >>,
     magvar |-> 3,
     bearings |-> {0, 360}, dmes |-> {3, 130},
     headings |-> {2}, alts |-> {30}, spds |-> {180},
     rwys |-> {"R02", "R99"}, routes |-> {<< >>}, sqs |-> {1200}]

Slow ==
    [aircraft |-> << [callsign |-> "AC3", sq |-> 1200, alt |-> 300, spd |-> 1,
                      route |-> <<"WPB", "ZZZ">>, brg |-> 45] >>,
     magvar |-> 0,
     bearings |-> {45}, dmes |-> {3, 70},
     headings |-> {45}, alts |-> {3}, spds |-> {0},
     rwys |-> {"R02"}, routes |-> {<<"ZZZ">>}, sqs |-> {1200}]

Scenarios == {Nominal, North, Slow}

Init == \E s \in Scenarios : Loaded(s)

Next ==
    \/ \E o \in DOMAIN thr : LoopTest(o)
    \/ \E o \in DOMAIN thr : SendOk(o)
    \/ \E o \in DOMAIN thr : SendFail(o)
    \/ \E o \in Listed : CmdPause(o)
    \/ \E o \in Listed : CmdUnpause(o)
    \/ \E o \in Listed : CmdHeading(o)
    \/ \E o \in Listed : CmdAltitude(o)
    \/ \E o \in Listed : CmdSpeed(o)
    \/ \E o \in Listed : CmdApproach(o)
    \/ \E o \in Listed : CmdApproachStatement(o)
    \/ \E o \in Listed : CmdNextWaypoint(o)
    \/ \E o \in Listed : CmdNextWaypointSet(o)
    \/ \E o \in Listed : CmdRoute(o)
    \/ \E o \in Listed : CmdRouteStatement(o)
    \/ \E o \in Listed : CmdSquawk(o)
    \/ \E o \in Listed : CmdDisconnect(o)
    \/ \E o \in Listed : CmdInvalid(o)
    \/ GlobalPause
    \/ GlobalUnpause
    \/ Reload
    \/ Exit

Spec == Init /\ [][Next]_vars

\* ------------------------------------------------------ two aircraft

\* A scenario with two aircraft records, both flying east toward WPA.
Fleet ==
    [aircraft |-> << [callsign |-> "AC4", sq |-> 1200, alt |-> 3000, spd |-> 180,
                      route |-> <<"WPA">>, brg |-> 90],
                     [callsign |-> "AC5", sq |-> 1200, alt |-> 3000, spd |-> 180,
                      route |-> <<"WPA">>, brg |-> 90] >>,
     magvar |-> 0,
     bearings |-> {90}, dmes |-> {60},
     headings |-> {90}, alts |-> {30}, spds |-> {180},
     rwys |-> {"R02"}, routes |-> {<<"WPA">>}, sqs |-> {1200}]

InitFleet == Loaded(Fleet)

SpecFleet == InitFleet /\ [][Next]_vars

\* ------------------------------------------------ a climb to a waypoint

\* A scenario whose aircraft is 1000 ft below the crossing altitude of its
\* waypoint WPB, with readings of 3 NM (the top of the climb) and 6.4 NM.
Climb ==
    [aircraft |-> << [callsign |-> "AC6", sq |-> 1200, alt |-> 2000, spd |-> 180,
                      route |-> <<"WPB">>, brg |-> 90] >>,
     magvar |-> 0,
     bearings |-> {90}, dmes |-> {30, 64},
     headings |-> {90}, alts |-> {40}, spds |-> {180},
     rwys |-> {"R02"}, routes |-> {<<"WPB">>}, sqs |-> {1200}]

InitClimb == Loaded(Climb)

SpecClimb == InitClimb /\ [][Next]_vars

\* ------------------------------------------------- turn_one_degree alone

\* the targets the callers pass: target_heading, a rounded bearing (0..360)
\* and a bearing plus or minus the shallow intercept angle (-5..365)
TurnTargets == {-5, -1, 0, 1, 90, 179, 180, 181, 359, 360, 365}

NoProgram ==
    /\ scn = Nominal
    /\ aircraft_list = <<>>
    /\ obj = <<>>
    /\ thr = <<>>
    /\ main = "running"
    /\ gen = 0
    /\ ncmd = 0
    /\ last = [cmd |-> "", ok |-> TRUE]
    /\ sel = NoObject
    /\ at = AtPrompt

InitTurn ==
    /\ NoProgram
    /\ \E h \in 0..359, t \in TurnTargets :
         pure = [fn |-> "turn", x |-> h, y |-> t, r |-> 0, n |-> 0, x0 |-> h]

TurnStep ==
    /\ pure.fn = "turn"
    /\ pure.n < MaxTurnSteps
    /\ pure' = [pure EXCEPT !.x = turn_one_degree(pure.x, pure.y), !.n = @ + 1]
    /\ UNCHANGED <<scn, sel, at, aircraft_list, obj, thr, main, gen, ncmd, last>>

SpecTurn == InitTurn /\ [][TurnStep]_vars

\* ------------------------------------------------------ adjust_alt alone

AltStarts == {2000, 2940, 2955, 2956, 2985, 2993, 3000, 3007, 3015, 3044,
              3045, 3060, 3600, 4000}
AltTargets == {3000, 2970}
AltRates == {1, 15, 300}

InitAlt ==
    /\ NoProgram
    /\ \E a \in AltStarts, g \in AltTargets, rate \in AltRates :
         pure = [fn |-> "alt", x |-> a, y |-> g, r |-> rate, n |-> 0, x0 |-> a]

AltStep ==
    /\ pure.fn = "alt"
    /\ pure.n < MaxAltSteps
    /\ pure' = [pure EXCEPT !.x = adjust_alt_by(pure.x, pure.y, pure.r), !.n = @ + 1]
    /\ UNCHANGED <<scn, sel, at, aircraft_list, obj, thr, main, gen, ncmd, last>>

SpecAlt == InitAlt /\ [][AltStep]_vars

\* ------------------------------------------------- PacketData (fgms.py)

\* A bytes object is a sequence of numbers in 0..255, a str a sequence of
\* code points.
MaxCallsign == 10   \* code points of the callsigns tried
MaxPayload == 8     \* bytes of the raw payloads tried
MaxChars == 5       \* code points of the strings encoded
MaxTail == 2        \* bytes that follow an encoded string in the buffer

Zeros(n) == [i \in 1..n |-> 0]

Rep(c, n) == [i \in 1..n |-> c]

\* data[:n]
Take(b, n) == SubSeq(b, 1, IF n < Len(b) THEN n ELSE Len(b))

\* data[n:]
Drop(b, n) == IF n >= Len(b) THEN <<>> ELSE SubSeq(b, n + 1, Len(b))

\* bytes(string, 'utf-8') for one code point
utf8(c) ==
    IF c < 128 THEN <<c>>
    ELSE IF c < 2048 THEN <<192 + (c \div 64), 128 + (c % 64)>>
    ELSE IF c < 65536
         THEN <<224 + (c \div 4096), 128 + ((c \div 64) % 64), 128 + (c % 64)>>
         ELSE <<240 + (c \div 262144), 128 + ((c \div 4096) % 64),
                128 + ((c \div 64) % 64), 128 + (c % 64)>>

RECURSIVE bytes(_)
bytes(string) ==
    IF Len(string) = 0 THEN <<>>
    ELSE IF Len(string) = 1 THEN utf8(string[1])
    ELSE LET half == Len(string) \div 2
         IN  bytes(SubSeq(string, 1, half))
                 \o bytes(SubSeq(string, half + 1, Len(string)))

\* pack('!i', i): four bytes, big endian, two's complement
pack_int(i) ==
    LET u == IF i >= 0 THEN i ELSE (i + 2147483647) + 1
        top == u \div 16777216
    IN  << IF i >= 0 THEN top ELSE top + 128,
           (u \div 65536) % 256, (u \div 256) % 256, u % 256 >>

\* unpack('!i', b)[0]
unpack_int_of(b) ==
    (IF b[1] >= 128 THEN b[1] - 256 ELSE b[1]) * 16777216
        + b[2] * 65536 + b[3] * 256 + b[4]

\* pack('!d', d) and pack('!f', f): eight and four bytes; which bytes they
\* are is the floating point encoding of the value, not modelled here
pack_double == Zeros(8)
pack_float == Zeros(4)

\* the struct format '<size>s' without the slice: a string longer than the
\* field is kept whole
pack_string_unsliced(size, string) ==
    LET b == bytes(string)
    IN  b \o Zeros(IF size > Len(b) THEN size - Len(b) ELSE 0)

\* pack('%ds' % size, bytes(string, encoding)[:size-1]): truncated to size - 1
\* bytes and filled with null bytes to size
pack_string(size, string) ==
    LET b == Take(bytes(string), size - 1)
    IN  b \o Zeros(size - Len(b))

\* make_position_message: the 32 byte header, then the data
make_position_message(callsign, data) ==
    <<70, 71, 70, 83>> \o <<0, 1, 0, 1>> \o <<0, 0, 0, 7>>
        \o pack_int(32 + Len(data))
        \o <<0, 0, 0, 0>> \o <<0, 0, 0, 0>>
        \o pack_string(8, callsign)
        \o data

\* position_data: model name, time, lag, position (5 doubles), orientation,
\* velocity and the zero vectors (15 floats), 4 bytes of padding
position_data(aircraft_model) ==
    pack_string(96, aircraft_model)
        \o pack_double \o pack_double
        \o pack_double \o pack_double \o pack_double
        \o pack_float \o pack_float \o pack_float
        \o pack_float \o pack_float \o pack_float
        \o pack_float \o pack_float \o pack_float
        \o pack_float \o pack_float \o pack_float
        \o pack_float \o pack_float \o pack_float
        \o <<0, 0, 0, 0>>

FGMS_prop_XPDR_code == 1500
FGMS_prop_XPDR_alt == 1501

\* the data FGMShandshaker.run hands to make_position_message
RunData(aircraft_model, sq, alt) ==
    position_data(aircraft_model)
        \o pack_int(FGMS_prop_XPDR_code) \o pack_int(sq)
        \o pack_int(FGMS_prop_XPDR_alt) \o pack_int(alt)

\* ------------------------------------------- make_position_message alone

Callsigns ==
    {Rep(65, k) : k \in 0..MaxCallsign}
        \cup {<<233, 66>>, <<65, 66, 67, 68, 69, 70, 233, 72, 73>>}

ModelNames == {Rep(66, k) : k \in {0, 4, 95, 96, 120}}

Payloads ==
    {[kind |-> "raw", data |-> Zeros(k)] : k \in 0..MaxPayload}
        \cup {[kind |-> "run", data |-> RunData(m, 1200, alt)] :
                 m \in ModelNames, alt \in {3000, -100}}

InitPkt ==
    /\ NoProgram
    /\ \E c \in Callsigns, d \in Payloads :
         pure = [fn |-> "pkt", x |-> c, y |-> d.data, r |-> <<>>, n |-> 0,
                 x0 |-> d.kind]

PktStep ==
    /\ pure.fn = "pkt"
    /\ pure.n = 0
    /\ pure' = [pure EXCEPT !.r = make_position_message(pure.x, pure.y), !.n = 1]
    /\ UNCHANGED <<scn, sel, at, aircraft_list, obj, thr, main, gen, ncmd, last>>

SpecPkt == InitPkt /\ [][PktStep]_vars

\* ----------------------------------- the per-codepoint ("buggy") strings

\* pad without the final `% block_multiple`: a whole block of padding behind
\* data that already ends on a block boundary
pad_whole_block(data, block_multiple) ==
    data \o Zeros(block_multiple - (Len(data) % block_multiple))

\* PacketData.pad
pad(data, block_multiple) ==
    LET n == block_multiple - (Len(data) % block_multiple)
    IN  data \o Zeros(n % block_multiple)

RECURSIVE pack_ints(_)
pack_ints(string) ==
    IF Len(string) = 0 THEN <<>>
    ELSE IF Len(string) = 1 THEN pack_int(string[1])
    ELSE LET half == Len(string) \div 2
         IN  pack_ints(SubSeq(string, 1, half))
                 \o pack_ints(SubSeq(string, half + 1, Len(string)))

\* pack_FGFS_buggy_string on a buffer holding `data`: the count, then one int
\* per code point, padded to a multiple of 16
pack_FGFS_buggy_string(data, string) ==
    data \o pack_int(Len(string)) \o pad(pack_ints(string), 16)

\* unpack_bytes with the truncation test made before anything is consumed:
\* a short buffer is left as it is
unpack_bytes_unconsumed(data, nbytes) ==
    IF Len(data) < nbytes
    THEN [ret |-> Zeros(nbytes), data |-> data]
    ELSE [ret |-> Take(data, nbytes), data |-> Drop(data, nbytes)]

\* PacketData.unpack_bytes: the value returned and the buffer left
unpack_bytes(data, nbytes) ==
    LET popped == Take(data, nbytes)
    IN  [ret |-> IF Len(popped) < nbytes THEN Zeros(nbytes) ELSE popped,
         data |-> Drop(data, nbytes)]

unpack_int(data) ==
    LET u == unpack_bytes(data, 4)
    IN  [ret |-> unpack_int_of(u.ret), data |-> u.data]

dodgy_character_substitute == 95

\* chr(i), with the ValueError of a number that is no code point caught
chr(i) == IF i >= 0 /\ i <= 1114111 THEN i ELSE dodgy_character_substitute

unpack_FGFS_buggy_string(data) ==
    LET n == unpack_int(data)
        nchars == n.ret
        u == unpack_bytes(n.data, (((4 * nchars - 1) \div 16) + 1) * 16)
    IN  [ret |-> [i \in 1..nchars |->
                    chr(unpack_int(Drop(u.ret, 4 * (i - 1))).ret)],
         data |-> u.data]

\* code points of the strings tried: NUL, 'A', a two-byte one, the largest
CodePoints == {0, 65, 233, 1114111}

RECURSIVE Strings(_)
Strings(n) ==
    IF n = 0 THEN {<<>>}
    ELSE LET shorter == Strings(n - 1)
         IN  shorter \cup {Append(t, c) : t \in shorter, c \in CodePoints}

Tails == {Rep(7, k) : k \in 0..MaxTail}

InitStr ==
    /\ NoProgram
    /\ \E t \in Strings(MaxChars), tail \in Tails :
         pure = [fn |-> "str", x |-> t, y |-> <<>>, r |-> <<>>, n |-> 0,
                 x0 |-> tail]

\* encode into an empty buffer; the tail is what follows in the buffer
EncodeStep ==
    /\ pure.fn = "str"
    /\ pure.n = 0
    /\ pure' = [pure EXCEPT !.r = pack_FGFS_buggy_string(<<>>, pure.x) \o pure.x0,
                            !.n = 1]
    /\ UNCHANGED <<scn, sel, at, aircraft_list, obj, thr, main, gen, ncmd, last>>

DecodeStep ==
    /\ pure.fn = "str"
    /\ pure.n = 1
    /\ LET u == unpack_FGFS_buggy_string(pure.r)
       IN  pure' = [pure EXCEPT !.y = u.ret, !.r = u.data, !.n = 2]
    /\ UNCHANGED <<scn, sel, at, aircraft_list, obj, thr, main, gen, ncmd, last>>

NextStr == EncodeStep \/ DecodeStep

SpecStr == InitStr /\ [][NextStr]_vars

\* ------------------------------------------------- unpack_bytes alone

MaxBuf == 6         \* bytes in the buffers consumed from
MaxWidth == 8       \* bytes asked for

\* a buffer of n bytes that are all different
Iota(n) == [i \in 1..n |-> i]

\* the bytes a string of nchars code points takes behind its count
BlockWidth(nchars) == (((4 * nchars - 1) \div 16) + 1) * 16

\* Either a buffer and a width to consume, or a per-codepoint string cut
\* short: a count of 1..MaxChars followed by fewer bytes than it declares.
InitShort ==
    /\ NoProgram
    /\ \/ \E k \in 0..MaxBuf, w \in 0..MaxWidth :
            pure = [fn |-> "short", x |-> Iota(k), y |-> w,
                    r |-> [ret |-> <<>>, data |-> <<>>], n |-> 0, x0 |-> "bytes"]
       \/ \E c \in 1..MaxChars :
            \E k \in 0..(BlockWidth(c) - 1) :
               pure = [fn |-> "short", x |-> pack_int(c) \o Iota(k), y |-> c,
                       r |-> [ret |-> <<>>, data |-> <<>>], n |-> 0,
                       x0 |-> "string"]

ConsumeStep ==
    /\ pure.fn = "short" /\ pure.x0 = "bytes"
    /\ pure.n = 0
    /\ pure' = [pure EXCEPT !.r = unpack_bytes(pure.x, pure.y), !.n = 1]
    /\ UNCHANGED <<scn, sel, at, aircraft_list, obj, thr, main, gen, ncmd, last>>

DecodeShortStep ==
    /\ pure.fn = "short" /\ pure.x0 = "string"
    /\ pure.n = 0
    /\ pure' = [pure EXCEPT !.r = unpack_FGFS_buggy_string(pure.x), !.n = 1]
    /\ UNCHANGED <<scn, sel, at, aircraft_list, obj, thr, main, gen, ncmd, last>>

NextShort == ConsumeStep \/ DecodeShortStep

SpecShort == InitShort /\ [][NextShort]_vars

\* ------------------------------------------------ coords.distance_to alone

\* distance_to takes acos of x = sin(lat1) sin(lat2) + cos(lat1) cos(lat2)
\* cos(dlon), computed in double precision.  For a point paired with itself x
\* is sin^2 + cos^2 of its latitude, which is 1 up to rounding; for a point
\* paired with its antipode it is the negative of the same sum.  RoundingAt is
\* that rounding error, measured with the code for the latitudes below, in
\* units of 2^-53.  Distances are in units of 10^-5 NM here, rounded down.
Lats == {0, 10, 30, 40, 45, 46, 60, 82, 90}

RoundingAt ==
    [lat \in Lats |-> CASE lat \in {10, 40} -> -1
                        [] lat = 46 -> -2
                        [] lat = 82 -> 2
                        [] OTHER -> 0]

Points == {<<s * lat, 30 * k>> : s \in {-1, 1}, lat \in Lats, k \in -6..5}

Antipode(p) == <<-p[1], p[2] + 180>>

\* the argument of acos for p2 = p1 or p2 = Antipode(p1): near * (1 + ulps * 2^-53)
acos_argument(p1, p2) ==
    [near |-> IF p2 = p1 THEN 1 ELSE -1, ulps |-> RoundingAt[Abs(p1[1])]]

\* math.acos raises ValueError outside [-1, 1]
OutsideDomain(x) == x.ulps > 0

\* acos(x) * Earth_radius_NM inside the domain
acos_NM(x) ==
    IF x.near = 1
    THEN CASE x.ulps = 0 -> 0
           [] x.ulps = -1 -> 5
           [] x.ulps = -2 -> 7
    ELSE CASE x.ulps = 0 -> 1081932618
           [] x.ulps = -1 -> 1081932613
           [] x.ulps = -2 -> 1081932611

\* distance_to: `except ValueError: return 0`
distance_to(p1, p2) ==
    LET x == acos_argument(p1, p2)
    IN  IF OutsideDomain(x)
        THEN [raised |-> "", ret |-> 0]
        ELSE [raised |-> "", ret |-> acos_NM(x)]

InitDist ==
    /\ NoProgram
    /\ \E p \in Points, q \in Points \cup {Antipode(a) : a \in Points} :
         /\ q \in {p, Antipode(p)}
         /\ pure = [fn |-> "dist", x |-> p, y |-> q,
                    r |-> [raised |-> "", ret |-> 0], n |-> 0, x0 |-> p]

DistStep ==
    /\ pure.fn = "dist"
    /\ pure.n = 0
    /\ pure' = [pure EXCEPT !.r = distance_to(pure.x, pure.y), !.n = 1]
    /\ UNCHANGED <<scn, sel, at, aircraft_list, obj, thr, main, gen, ncmd, last>>

SpecDist == InitDist /\ [][DistStep]_vars

\* ================================================================ claims

Running(o) ==
    /\ o \in DOMAIN thr
    /\ thr[o].pc \in {"idle", "tick"}

\* ---- C1.  An unpaused aircraft in APPROACH mode whose tick reads a distance
\* of at most 0.4 NM to the touchdown point is removed from aircraft_list,
\* and its transmitter sends nothing after that tick.
C1_RemovedAtTouchdown ==
    \A o \in DOMAIN obj :
        obj[o].touchdown => (o \notin Listed /\ ~ Running(o))

\* ---- C2.  A tick that begins paused changes nothing of the aircraft, and
\* two consecutive packets whose ticks both began paused report the same
\* position and altitude; two consecutive packets whose ticks both began
\* unpaused with nonzero speed report different positions.
BuiltPacket(o) ==
    /\ o \in DOMAIN thr /\ o \in DOMAIN thr'
    /\ thr[o].pc = "tick" /\ thr'[o].pc = "idle"

PausedTick(o) ==
    (BuiltPacket(o) /\ obj[o].paused) =>
        /\ obj'[o] = obj[o]
        /\ (thr[o].pkt # Unset /\ thr[o].began.paused) =>
               /\ Val(thr'[o].pkt).pos = Val(thr[o].pkt).pos
               /\ Val(thr'[o].pkt).alt = Val(thr[o].pkt).alt

BothUnpausedMoving(o) ==
    /\ BuiltPacket(o)
    /\ thr[o].pkt # Unset
    /\ ~ thr[o].began.paused /\ thr[o].began.spd # 0
    /\ ~ obj[o].paused /\ obj[o].spd # 0

C2_PausedSameUnpausedDiffers ==
    [][\A o \in DOMAIN thr :
          /\ PausedTick(o)
          /\ BothUnpausedMoving(o) =>
                 Val(thr'[o].pkt).pos # Val(thr[o].pkt).pos]_vars

\* C2 as amended: ... two consecutive packets whose ticks both began unpaused
\* with nonzero speed, the speed of the second still being nonzero after the
\* tick's speed steps, report different positions.
C2_PausedSameMovedDiffers ==
    [][\A o \in DOMAIN thr :
          /\ PausedTick(o)
          /\ (BothUnpausedMoving(o) /\ obj'[o].spd # 0) =>
                 Val(thr'[o].pkt).pos # Val(thr[o].pkt).pos]_vars

C2_Witness ==
    \E o \in DOMAIN thr :
        /\ thr[o].pkt # Unset
        /\ ~ thr[o].began.paused /\ thr[o].began.spd # 0
        /\ obj[o].spd # 0
        /\ obj[o].ticks >= 2

\* ---- C3.  From every heading in [0,360) and for every target a caller can
\* pass, repeated turn_one_degree reaches the target modulo 360 within 180
\* applications and stays there.
C3_TurnReachesAndStays ==
    [][/\ pure'.n >= 180 => pure'.x = pure'.y % 360
       /\ pure.x = pure.y % 360 => pure'.x = pure.y % 360]_vars

\* ---- C4.  heading and target_heading of every aircraft lie in [0,360), from
\* construction on.
C4_HeadingsInRange ==
    \A o \in DOMAIN obj :
        /\ obj[o].heading >= 0 /\ obj[o].heading < 360
        /\ obj[o].target_heading >= 0 /\ obj[o].target_heading < 360

\* ---- C5.  adjust_alt applied n times from altitude a toward g at rate r
\* has moved the altitude n full steps toward g, or exactly onto g once
\* n * r covers the distance: g is reached in exactly ceil(|a - g| / r)
\* ticks, every earlier tick shortens the distance by r, and no tick passes g.
C5_AltitudeApproach ==
    pure.fn = "alt" =>
        LET d == Abs(pure.x0 - pure.y)
        IN  pure.x = IF pure.n * pure.r >= d THEN pure.y
                     ELSE IF pure.x0 > pure.y THEN pure.x0 - pure.n * pure.r
                     ELSE pure.x0 + pure.n * pure.r

\* 1000 ft below the target at 300 ft per tick: on target after 4 ticks
C5_Witness ==
    /\ pure.fn = "alt"
    /\ pure.x0 = 2000 /\ pure.y = 3000 /\ pure.r = 300
    /\ pure.n = 4 /\ pure.x = 3000

\* ---- C6.  For every speed an aircraft has and every target speed, the
\* speed step does not pass to the other side of the target, and the speed
\* can reach the target exactly (it is a whole number of knots away).
C6_SpeedNeverCrosses ==
    \A o \in DOMAIN obj :
        LET s == obj[o].spd
            t == obj[o].target_spd
            n == adjust_speed_by(s, t)
        IN  /\ s <= t => n <= t
            /\ s >= t => n >= t
            /\ (s - t) % 10 = 0

\* ---- C7.  Every aircraft in aircraft_list has one transmitter, running its
\* loop and bound to it, for as long as it is in the list.
C7_ListedHasRunningTransmitter ==
    \A o \in Listed :
        /\ Running(o)
        /\ thr[o].handshaker_run
        /\ Has(obj[o], "handler") /\ obj[o].handler = "open"

\* ---- C8.  Once the stop flag is cleared the transmitter sends at most one
\* further datagram (that of the iteration in progress), and a loop test made
\* with the flag cleared ends the loop: no iteration starts after the stop.
C8_CooperativeStop ==
    [][\A o \in DOMAIN thr :
          /\ o \in DOMAIN thr' => thr'[o].after_stop <= 1
          /\ (thr[o].pc = "idle" /\ ~ thr[o].handshaker_run /\ o \in DOMAIN thr')
                 => thr'[o].pc \in {"idle", "done"}]_vars

\* a datagram has gone out after the stop, and the thread is back at the test
C8_Witness ==
    \E o \in DOMAIN thr :
        thr[o].after_stop = 1 /\ thr[o].pc = "idle" /\ ~ thr[o].handshaker_run

\* ---- C9.  An iteration whose sendto raises OSError ends like any other, at
\* the sleep before the next loop test, with the stop flag as it was; and a
\* loop test made with the flag set starts the next iteration.
SendRaised(o) ==
    /\ o \in DOMAIN thr'
    /\ thr[o].pc = "tick" /\ thr'[o].pc # "tick"
    /\ thr'[o].sendto = "OSError" /\ thr'[o].error = ""

C9_SendFailureKeepsLoop ==
    [][\A o \in DOMAIN thr :
          /\ SendRaised(o) =>
                 /\ thr'[o].pc = "idle"
                 /\ thr'[o].handshaker_run = thr[o].handshaker_run
          /\ (/\ thr[o].pc = "idle" /\ thr[o].sendto = "OSError"
              /\ o \in DOMAIN thr' /\ thr'[o] # thr[o]
              /\ thr'[o].handshaker_run)
                 => thr'[o].pc = "tick"]_vars

\* the iteration after a failed send is under way
C9_Witness ==
    \E o \in DOMAIN thr :
        thr[o].sendto = "OSError" /\ thr[o].pc = "tick" /\ ~ obj[o].paused

\* ---- C10.  RELOAD, after any commands, ends without error, has told every
\* transmitter created before it to stop, and leaves in aircraft_list exactly
\* one freshly initialised aircraft per scenario record.
Reloaded ==
    /\ main = "running"
    /\ last.ok
    /\ Len(aircraft_list) = Len(scn.aircraft)
    /\ \A i \in 1..Len(aircraft_list) :
          LET o == aircraft_list[i]
          IN  /\ o = <<gen, i>>
              /\ \E sock \in BOOLEAN :
                    obj[o] = [Aircraft(scn.aircraft[i]) EXCEPT
                                !.handler = FgmsHandler(sock)]
    /\ \A o \in DOMAIN thr : o[1] < gen => ~ thr[o].handshaker_run

C10_ReloadRebuilds ==
    [][(ncmd' = ncmd + 1 /\ last'.cmd = "RELOAD") => Reloaded']_vars

\* ---- C11.  The EXIT command, after any earlier commands, leaves no
\* transmitter that is still running its loop with the stop flag set: every
\* transmitter has been told to stop.
C11_ExitStopsAll ==
    [][(ncmd' = ncmd + 1 /\ last'.cmd = "EXIT") =>
          \A o \in DOMAIN thr' :
              thr'[o].pc \in {"idle", "tick"} => ~ thr'[o].handshaker_run]_vars

\* ---- C12.  A per-aircraft command that ends in the 'Invalid instruction!'
\* report leaves every field of every aircraft, and every transmitter, as it
\* was before the command.
AircraftCommands == {"p", "u", "h", "m", "s", "a", ">>", ">", "b", "x", "?"}

C12_RejectedChangesNothing ==
    [][(ncmd' = ncmd + 1 /\ last'.cmd \in AircraftCommands /\ ~ last'.ok) =>
          (obj' = obj /\ thr' = thr /\ aircraft_list' = aircraft_list)]_vars

\* ---- C13.  When set_target_wpt has run (in '>>' and, through set_route, in
\* '>') for an aircraft whose active route token names no navaid, or whose
\* waypoint index is past the end of the route, the aircraft is in HEADING
\* mode.  The scenarios of Spec hold one aircraft, the one commanded.
NoWaypoint(a) ==
    \/ a.target_wpt_index >= Len(a.route)
    \/ a.route[a.target_wpt_index + 1] \notin NavaidNames

C13_MissingWaypointFallsBack ==
    [][(ncmd' = ncmd + 1 /\ last'.cmd \in {">>", ">"}) =>
          \A o \in Listed :
              NoWaypoint(obj'[o]) => obj'[o].status = "heading"]_vars

\* ---- C14.  A tick that takes an aircraft from ROUTE mode to HEADING mode
\* (the waypoint index has gone past the route's end) leaves target_heading
\* equal to the heading, whatever the magnetic variation; and a tick in
\* HEADING mode with the heading on its target does not change the heading.
Ticked(o) ==
    /\ o \in DOMAIN thr /\ o \in DOMAIN thr' /\ o \in DOMAIN obj'
    /\ thr[o].pc = "tick" /\ thr'[o].pc = "idle"

C14_FallbackHoldsHeading ==
    [][\A o \in DOMAIN thr :
          Ticked(o) =>
              /\ (obj[o].status = "route" /\ obj'[o].status = "heading") =>
                     /\ obj'[o].target_heading = obj'[o].heading
                     /\ obj'[o].heading = obj[o].heading
              /\ (/\ obj[o].status = "heading"
                  /\ obj[o].heading = obj[o].target_heading) =>
                     obj'[o].heading = obj[o].heading]_vars

\* ---- C15.  In every state every aircraft either has a waypoint index that
\* is a position of its route, or is not in ROUTE mode.
C15_IndexValidOrNotRoute ==
    \A o \in DOMAIN obj :
        \/ obj[o].target_wpt_index >= 0
           /\ obj[o].target_wpt_index < Len(obj[o].route)
        \/ obj[o].status # "route"

\* ---- C16.  For every callsign, also one longer than 8 bytes, and every
\* payload, the packet of make_position_message is the payload behind a
\* header of exactly 32 bytes, and its length field holds 32 + len(payload),
\* which is the packet's length; a packet built from the data of run() is
\* 248 bytes long, whatever the model name, squawk and altitude.
C16_PacketLength ==
    (pure.fn = "pkt" /\ pure.n = 1) =>
        /\ Len(pure.r) = 32 + Len(pure.y)
        /\ unpack_int_of(SubSeq(pure.r, 13, 16)) = 32 + Len(pure.y)
        /\ SubSeq(pure.r, 33, Len(pure.r)) = pure.y
        /\ SubSeq(pure.r, 25, 31) = Take(bytes(pure.x) \o Zeros(7), 7)
        /\ pure.r[32] = 0
        /\ pure.x0 = "run" => Len(pure.r) = 248

\* a callsign of more than 8 bytes on a packet of run()
C16_Witness ==
    /\ pure.fn = "pkt" /\ pure.n = 1
    /\ Len(pure.x) > 8
    /\ pure.x0 = "run" /\ Len(pure.r) = 248

\* ---- C17.  For every string of N >= 0 code points, the encoder appends
\* 4 + ((4N - 1) div 16 + 1) * 16 bytes, and decoding returns the string and
\* leaves exactly the bytes that followed it in the buffer.
C17_BuggyStringRoundTrip ==
    pure.fn = "str" =>
        /\ pure.n = 1 =>
               Len(pure.r) = 4 + (((4 * Len(pure.x) - 1) \div 16) + 1) * 16
                                 + Len(pure.x0)
        /\ pure.n = 2 => (pure.y = pure.x /\ pure.r = pure.x0)

\* a string whose ints fill a whole block, decoded in front of a tail
C17_Witness ==
    /\ pure.fn = "str" /\ pure.n = 2
    /\ Len(pure.x) = 4 /\ pure.y = pure.x
    /\ Len(pure.x0) = 2 /\ pure.r = pure.x0

\* ---- C18.  Consuming n >= 0 bytes from a buffer that holds at least n
\* returns its first n bytes and leaves the rest; from a buffer that holds
\* fewer it returns n zero bytes and leaves the buffer empty.  Decoding a
\* per-codepoint string whose count declares more bytes than are present ends
\* with as many NUL characters as the count says and an empty buffer.
C18_ConsumeNeverFails ==
    (pure.fn = "short" /\ pure.n = 1) =>
        /\ pure.x0 = "bytes" =>
               IF Len(pure.x) >= pure.y
               THEN /\ Len(pure.r.ret) = pure.y
                    /\ \A i \in 1..pure.y : pure.r.ret[i] = pure.x[i]
                    /\ pure.r.ret \o pure.r.data = pure.x
               ELSE /\ pure.r.ret = Zeros(pure.y)
                    /\ pure.r.data = <<>>
        /\ pure.x0 = "string" =>
               /\ pure.r.ret = Zeros(pure.y)
               /\ pure.r.data = <<>>

\* eight bytes asked of a buffer of six
C18_Witness ==
    /\ pure.fn = "short" /\ pure.n = 1 /\ pure.x0 = "bytes"
    /\ Len(pure.x) = 6 /\ pure.y = 8
    /\ pure.r.ret = Zeros(8) /\ pure.r.data = <<>>

\* ---- C19.  After a tick of an unpaused aircraft in APPROACH mode that read
\* a distance d with 0.4 < d < 5 NM, the speed of the aircraft (the one its
\* position was advanced with and the one the packet reports) is the
\* snapshot less 8 kt for every NM that d is inside 5 NM.
TickResult(o, rd) ==
    [control_aircraft(obj[o], rd[1], rd[2]) EXCEPT
        !.raised = "", !.ticks = obj'[o].ticks, !.touchdown = obj'[o].touchdown,
        !.snap = obj'[o].snap]

C19_ApproachSpeedIsBleed ==
    [][\A o \in DOMAIN thr :
          (Ticked(o) /\ ~ obj[o].paused /\ obj[o].status = "approach") =>
              \A rd \in Readings(obj[o]) :
                  (/\ rd[2] > magic_distance /\ rd[2] < free_speed_distance
                   /\ obj'[o] = TickResult(o, rd)) =>
                      /\ obj'[o].spd = obj'[o].initial_appr_spd
                             - (free_speed_distance - rd[2]) * free_speed_increment
                      /\ Val(thr'[o].pkt).spd = obj'[o].spd]_vars

\* ---- C20.  distance_to raises nothing; when the argument of acos is outside
\* [-1, 1] it returns 0; and the distance from a point to itself is 0.
C20_DistanceToSelfIsZero ==
    (pure.fn = "dist" /\ pure.n = 1) =>
        /\ pure.r.raised = ""
        /\ OutsideDomain(acos_argument(pure.x, pure.y)) => pure.r.ret = 0
        /\ pure.y = pure.x => pure.r.ret = 0

\* ---- C21.  A tick of an unpaused aircraft in APPROACH mode turns toward the
\* centerline exactly when the angular error between the bearing to touchdown
\* and the inbound course (the smallest angle between the two directions) is
\* at most 2 degrees with the distance under 12 NM, or at most 1 degree with
\* the distance at 12 NM or more; every other such tick turns one degree
\* toward target_heading.
AngularError(b, c) ==
    LET d == (b - c) % 360
    IN  IF d > 180 THEN 360 - d ELSE d

C21_CaptureByAngularError ==
    [][\A o \in DOMAIN thr :
          (Ticked(o) /\ ~ obj[o].paused /\ obj[o].status = "approach") =>
              \A rd \in Readings(obj[o]) :
                  obj'[o] = TickResult(o, rd) =>
                      LET err == AngularError(rd[1], obj[o].target_rwy_crs)
                          captured ==
                              \/ err <= 2 /\ rd[2] < feather_distance
                              \/ err <= 1 /\ rd[2] >= feather_distance
                      IN  obj'[o].heading =
                              IF captured
                              THEN turn_to_centerline(obj[o], rd[1]).heading
                              ELSE turn_one_degree(obj[o].heading,
                                                   obj[o].target_heading)]_vars

\* ---- C22.  At the end of every tick of an unpaused aircraft in APPROACH
\* mode the altitude of the aircraft, which is the altitude the packet of
\* that tick reports, is not above the glidepath altitude of that tick,
\* 300 ft per NM of the distance read plus the runway elevation.
C22_NotAboveGlidepath ==
    [][\A o \in DOMAIN thr :
          (Ticked(o) /\ ~ obj[o].paused /\ obj[o].status = "approach") =>
              \A rd \in Readings(obj[o]) :
                  obj'[o] = TickResult(o, rd) =>
                      /\ obj'[o].alt <= 30 * rd[2] + obj[o].target_rwy_elev
                      /\ Val(thr'[o].pkt).alt = obj'[o].alt]_vars

\* ---- C23.  A tick of an unpaused aircraft in ROUTE mode adds exactly 1 to
\* the waypoint index when the distance it reads to the active waypoint is at
\* most 0.4 NM, and leaves the index alone otherwise; when the new index is a
\* position of the route whose token names a navaid, the cached waypoint
\* (latitude, longitude, crossing altitude, 0 when the record has none) is
\* afterwards that of the token.
C23_SequencingAtThreshold ==
    [][\A o \in DOMAIN thr :
          (Ticked(o) /\ ~ obj[o].paused /\ obj[o].status = "route") =>
              \A rd \in Readings(obj[o]) :
                  obj'[o] = TickResult(o, rd) =>
                      LET a == obj'[o]
                          i == a.target_wpt_index
                      IN  /\ i = obj[o].target_wpt_index
                                   + (IF rd[2] <= magic_distance THEN 1 ELSE 0)
                          /\ (/\ rd[2] <= magic_distance
                              /\ i < Len(a.route)
                              /\ a.route[i + 1] \in NavaidNames) =>
                                 /\ a.target_wpt_lat = a.route[i + 1]
                                 /\ a.target_wpt_lon = a.route[i + 1]
                                 /\ a.target_wpt_alt = Navaids[a.route[i + 1]]]_vars

\* after 'u' alone, a tick has taken AC1 from WPA on to WPB (crossing 3000 ft)
C23_Witness ==
    \E o \in DOMAIN obj :
        /\ ncmd = 1 /\ last.cmd = "u"
        /\ obj[o].callsign = "AC1" /\ obj[o].status = "route"
        /\ obj[o].ticks >= 1
        /\ obj[o].target_wpt_index = 1
        /\ obj[o].target_wpt_lat = "WPB" /\ obj[o].target_wpt_alt = 3000

\* ---- C24.  For a heading h and a target t in [0,360) with h # t, one
\* turn_one_degree(t) moves the heading one degree (modulo 360) in the
\* direction in which t is at most 180 degrees away, so that the angular
\* distance to t shrinks by exactly 1; with t exactly 180 degrees away the
\* turn is to the left (the heading goes down by 1 modulo 360); with h = t the
\* heading stays.
C24_OneDegreeShortestWay ==
    [][(pure.fn = "turn" /\ pure.y >= 0 /\ pure.y < 360
           /\ pure.x >= 0 /\ pure.x < 360) =>
          LET h == pure.x
              t == pure.y
              left == (h - t) % 360
              right == (t - h) % 360
          IN  IF h = t THEN pure'.x = h
              ELSE /\ pure'.x = IF left <= right THEN (h - 1) % 360
                                                  ELSE (h + 1) % 360
                   /\ AngularError(pure'.x, t) = AngularError(h, t) - 1]_vars

\* from heading 0 with target 180, half a circle away, one turn has led to 359
C24_Witness ==
    /\ pure.fn = "turn"
    /\ pure.x0 = 0 /\ pure.y = 180
    /\ pure.n = 1 /\ pure.x = 359

\* ---- C25.  Every iteration of a transmitter's loop is one get_pos call
\* (one state advance when the aircraft is unpaused, none when it is paused)
\* followed by one send attempt, of a packet built from the state that call
\* left; and nothing but the iteration of its own transmitter changes the
\* position, altitude, speed or heading of an aircraft.
Kinematics(a) == <<a.pos, a.alt, a.spd, a.heading, a.ticks>>

LeftLoopBody(o) ==
    /\ thr[o].pc = "tick"
    /\ o \in DOMAIN thr' => thr'[o].pc # "tick"

C25_OneTickOneSend ==
    [][\A o \in DOMAIN thr :
          /\ LeftLoopBody(o) =>
                 /\ o \in DOMAIN thr' /\ thr'[o].pc = "idle"
                 /\ thr'[o].sendto \in {"ok", "OSError"}
                 /\ thr'[o].pkt = Some(Report(obj'[o]))
                 /\ obj'[o].ticks = obj[o].ticks + (IF obj[o].paused THEN 0 ELSE 1)
                 /\ obj[o].paused => Kinematics(obj'[o]) = Kinematics(obj[o])
          /\ (o \in DOMAIN obj' /\ ~ LeftLoopBody(o)) =>
                 Kinematics(obj'[o]) = Kinematics(obj[o])]_vars

\* ---- C26.  When the '>>' command is accepted (it reports 'Proceeding
\* direct to W'), the aircraft is afterwards in ROUTE mode, whatever mode it
\* was in, W is the route token at its waypoint index, and the cached waypoint
\* is that of W.
C26_DirectToNextResumesRoute ==
    [][(ncmd' = ncmd + 1 /\ last'.cmd = ">>" /\ last'.ok) =>
          LET a == obj'[sel]
              W == a.route[a.target_wpt_index + 1]
          IN  /\ a.status = "route"
              /\ a.target_wpt_lat = W /\ a.target_wpt_lon = W]_vars

\* ---- C27.  A tick in ROUTE mode changes target_alt only when the active
\* waypoint has a nonzero crossing altitude, the on-profile flag is set and
\* the distance read is at most |alt - crossing altitude| / 1000 * 3 NM, and
\* then target_alt becomes the crossing altitude.  The operator's altitude
\* command clears the flag and nothing sets it again (a later route command
\* included), and with the flag cleared no tick in ROUTE mode changes
\* target_alt.  The scenarios of Spec hold one aircraft, the one commanded.
RouteTick(o) ==
    Ticked(o) /\ ~ obj[o].paused /\ obj[o].status = "route"

InDescentRange(a, dme) ==
    /\ a.target_wpt_alt # 0
    /\ a.on_profile
    /\ dme * 100 <= Abs(a.alt - a.target_wpt_alt) * 3

RunwayRecordOf(a, rwy) ==
    /\ Has(a, "target_rwy_lat") /\ a.target_rwy_lat = rwy
    /\ Has(a, "target_rwy_lon") /\ a.target_rwy_lon = rwy
    /\ Has(a, "target_rwy_crs") /\ a.target_rwy_crs = Runways[rwy].crs - scn.magvar
    /\ Has(a, "target_rwy_elev") /\ a.target_rwy_elev = Runways[rwy].elev

C28_ApproachTickReadsWholeRunway ==
    \A o \in DOMAIN thr :
        (thr[o].pc = "tick" /\ ~ obj[o].paused /\ obj[o].status = "approach") =>
            \E rwy \in RunwayIds : RunwayRecordOf(obj[o], rwy)

\* ---- C29.  When the '>' command has run set_route(r) to its end, for a
\* route r whose first token names a navaid that no tick of the aircraft has
\* found itself within 0.4 NM of, the aircraft is in ROUTE mode on route r
\* with waypoint index 0 and the cached waypoint of r[0], whatever the
\* transmitter thread did between the statements of set_route.
C29_SetRouteStartsAtFirst ==
    [][(ncmd' = ncmd + 1 /\ last'.cmd = ">") =>
          LET r == at.arg
              a == obj'[sel]
          IN  (/\ Len(r) > 0 /\ r[1] \in NavaidNames
               /\ sel \in DOMAIN thr => r[1] \notin thr[sel].reached) =>
                  /\ a.status = "route" /\ a.route = r
                  /\ a.target_wpt_index = 0
                  /\ a.target_wpt_lat = r[1] /\ a.target_wpt_lon = r[1]]_vars

\* ---- C30.  A tick changes the mode of an aircraft only from ROUTE to
\* HEADING; every other change of mode is made by the operator's command for
\* the new mode: the route command ('>') for ROUTE, the heading command ('h')
\* for HEADING, the approach command ('a') for APPROACH.  So APPROACH mode is
\* left only through 'h' or '>' (or with the removal of the aircraft).
CommandOfStep ==
    IF at'.line # 0 THEN at'.cmd
    ELSE IF ncmd' = ncmd + 1 THEN last'.cmd
    ELSE ""

ModeCommand == [route |-> ">", heading |-> "h", approach |-> "a"]

C30_ModeChanges ==
    [][\A o \in DOMAIN obj :
          (o \in DOMAIN obj' /\ obj'[o].status # obj[o].status) =>
              IF o \in DOMAIN thr /\ thr[o].pc = "tick"
                    /\ (o \in DOMAIN thr' => thr'[o].pc # "tick")
              THEN obj[o].status = "route" /\ obj'[o].status = "heading"
              ELSE CommandOfStep = ModeCommand[obj'[o].status]]_vars

\* ---- C31.  Whenever a tick applies the approach speed bleed (an unpaused
\* tick in APPROACH mode that reads a distance d with 0.4 < d < 5 NM), the
\* snapshot it subtracts from was stored by a tick of this aircraft, during
\* the approach now flown, that read a distance rounding to 6 NM; it is not
\* the value the constructor stored, nor one stored during an earlier
\* approach.
C31_BleedFromOwnSnapshot ==
    [][\A o \in DOMAIN thr :
          (Ticked(o) /\ ~ obj[o].paused /\ obj[o].status = "approach") =>
              \A rd \in Readings(obj[o]) :
                  (/\ rd[2] > magic_distance /\ rd[2] < free_speed_distance
                   /\ obj'[o] = TickResult(o, rd)) =>
                      obj[o].snap = "taken"]_vars

\* the values the constructor gives to aircraft o
Created(o) == Aircraft(scn.aircraft[o[2]])

\* ---- C32.  Every aircraft is created paused, at the initial load and at
\* every reload, whatever global pause or unpause came before; and until the
\* first unpause command that addresses it ('u' for it, or 'U' while it is in
\* the list) it stays paused, and its position, altitude,
\* speed, heading and waypoint index are those the constructor gave it,
\* although its transmitter sends packets.
C32_FrozenUntilUnpaused ==
    \A o \in DOMAIN obj :
        obj[o].fresh =>
            /\ obj[o].paused
            /\ obj[o].pos = Created(o).pos
            /\ obj[o].alt = Created(o).alt
            /\ obj[o].spd = Created(o).spd
            /\ obj[o].heading = Created(o).heading
            /\ obj[o].target_wpt_index = Created(o).target_wpt_index

\* ---- C32, amended.  Every aircraft is created paused, at the initial load
\* and at every reload, whatever global pause or unpause came before; until
\* the first unpause command that addresses it, it stays paused and its
\* position, altitude, speed and heading are those the constructor gave it,
\* while its transmitter sends packets.  Its waypoint index is changed during
\* that time by no tick, only by the operator's commands: '>>' adds one to
\* it and a new route sets it to 0.
C32_FrozenExceptRouting ==
    /\ [](\A o \in DOMAIN obj :
             obj[o].fresh =>
                 /\ obj[o].paused
                 /\ obj[o].pos = Created(o).pos
                 /\ obj[o].alt = Created(o).alt
                 /\ obj[o].spd = Created(o).spd
                 /\ obj[o].heading = Created(o).heading)
    /\ [][\A o \in DOMAIN obj :
             (obj[o].fresh /\ o \in DOMAIN obj' /\ obj'[o].fresh) =>
                 \/ obj'[o].target_wpt_index = obj[o].target_wpt_index
                 \/ /\ at = AtPrompt /\ at'.cmd = ">>" /\ sel' = o
                    /\ obj'[o].target_wpt_index = obj[o].target_wpt_index + 1
                 \/ /\ at.cmd = ">" /\ at.line = 92 /\ sel = o
                    /\ obj'[o].target_wpt_index = 0]_vars

\* an aircraft built by RELOAD while an aircraft of the first load that had
\* been unpaused is still transmitting: the new one has sent a packet and
\* no unpause command has addressed it
C32_Witness ==
    \E o \in DOMAIN thr, p \in DOMAIN obj :
        /\ o[1] = 2 /\ p[1] = 1
        /\ ~ obj[p].fresh /\ ~ obj[p].paused
        /\ obj[o].fresh
        /\ thr[o].pkt # Unset /\ thr[o].sendto = "ok"

====
